---------------------------- MODULE Spec2Model ----------------------------
(***************************************************************************)
(* CloudSimPython: the controller's membership registry and liveness       *)
(* monitor (cloudsim/controller.py) and the orchestrator's placement       *)
(* planner and transfer executor (cloudsim/orchestrator.py).               *)
(*                                                                         *)
(* Python dicts are modelled as sequences of [key, val] entries in         *)
(* insertion order (the order dict iteration yields).  JSON values that    *)
(* int() or str() is applied to are tagged: [num |-> n] is a JSON number,  *)
(* [str |-> s] a JSON string.  Wall-clock time is an integer number of     *)
(* seconds that advances in steps of TimeStep.                             *)
(***************************************************************************)
EXTENDS Integers, Sequences, FiniteSets, TLC

VARIABLES
    now,            \* time.time(), in seconds
    registered,     \* NetworkController._registered : node_id -> NodeInfo
    last_hb,        \* NetworkController._last_hb    : node_id -> float
    total_connections, \* NetworkController._total_connections
    lock,           \* owner of NetworkController._lock: "free" or "monitor"
    conn,           \* per accepted connection: the _handle_client thread
    hb_pc,          \* _heartbeat_monitor: position of the monitor thread
    hb_cutoff,      \* _heartbeat_monitor: local `cutoff`
    hb_items,       \* _heartbeat_monitor: rest of list(self._last_hb.items())
    hb_node,        \* _heartbeat_monitor: local `node_id` of the probed node
    ping_ok,        \* value returned by _ping_udp for hb_node
    hb_wake,        \* end of the monitor's time.sleep
    reserved,       \* Orchestrator._reserved : node_id -> bytes reserved
    transfers,      \* the FileTransfer objects created so far
    target_nodes,   \* per transfer: `targets`, passed to _execute
    planner,        \* the thread calling initiate_transfer
    executor,       \* per transfer: the thread running _execute
    sim_pos,        \* per transfer and target: the _simulate_to_node thread
    attributed,     \* history: per transfer and node, the bytes the
                    \* transfer's own writes have added to the ledger
    call,           \* the last call of a function made by a caller, with
                    \* its arguments and the value it returned
    agent           \* StorageNode: the thread running start()

ctlVars == <<now, registered, last_hb, total_connections, lock, conn,
             hb_pc, hb_cutoff, hb_items, hb_node, ping_ok, hb_wake>>

orchVars == <<reserved, transfers, target_nodes, planner, executor,
              sim_pos, attributed>>

auxVars == <<call, agent>>

vars == <<ctlVars, orchVars, auxVars>>

---------------------------------------------------------------------------
(* Bounds of the model. *)

TimeStep == 5           \* seconds by which one Tick advances the clock
MaxTime == 15           \* the clock stops advancing here
MaxConnections == 3     \* connections the accept loop takes in one run

(* Program constants. *)

HEARTBEAT_TIMEOUT_SECONDS == 10
HEARTBEAT_CHECK_INTERVAL_SECONDS == 5
ControllerPort == 8080

---------------------------------------------------------------------------
(* Python dict as a sequence of entries in insertion order. *)

DictKeys(d) == {d[i].key : i \in 1..Len(d)}

DictHas(d, k) == \E i \in 1..Len(d) : d[i].key = k

DictIndex(d, k) == CHOOSE i \in 1..Len(d) : d[i].key = k

DictGet(d, k) == d[DictIndex(d, k)].val

\* without k
DictRemove(d, k) == SelectSeq(d, LAMBDA e : e.key # k)

\* (mutant) the entries kept as a list that every assignment appends to
DictPutAppends(d, k, v) == Append(d, [key |-> k, val |-> v])

\* d[k] = v: an existing key keeps its position, a new key goes last
DictPut(d, k, v) ==
    IF DictHas(d, k)
    THEN [d EXCEPT ![DictIndex(d, k)] = [key |-> k, val |-> v]]
    ELSE Append(d, [key |-> k, val |-> v])

\* msg.get(k, default) on a JSON object
Get(m, k, default) == IF k \in DOMAIN m THEN m[k] ELSE default

Num(n) == [num |-> n]
Str(s) == [str |-> s]
IsNum(v) == DOMAIN v = {"num"}
IsStr(v) == DOMAIN v = {"str"}


---------------------------------------------------------------------------
(* Python conversions applied to request fields.  A result is              *)
(* [ok |-> TRUE, val |-> v] or [ok |-> FALSE, err |-> str(exception)].     *)

\* int(v): a JSON number converts; the JSON strings the requests carry in
\* numeric fields are not numerals, so int() raises ValueError on them
PyInt(v) ==
    IF IsNum(v)
    THEN [ok |-> TRUE, val |-> v.num]
    ELSE [ok |-> FALSE,
          err |-> "invalid literal for int() with base 10: '" \o v.str \o "'"]

\* str(v) of a JSON string is the string
PyStr(v) == v.str

\* the first exception raised by a sequence of conversions, if any
FirstError(rs) ==
    LET bad == {i \in 1..Len(rs) : ~rs[i].ok}
    IN  IF bad = {} THEN [ok |-> TRUE]
        ELSE [ok |-> FALSE,
              err |-> rs[CHOOSE i \in bad : \A j \in bad : i <= j].err]

DefaultStorageBytes == 100 * 1024 * 1024 * 1024

---------------------------------------------------------------------------
(* models.py *)

NodeCapacity(cpu, memory_gb, storage_bytes, bandwidth_bps) ==
    [cpu |-> cpu, memory_gb |-> memory_gb,
     storage_bytes |-> storage_bytes, bandwidth_bps |-> bandwidth_bps]

\* NodeInfo(node_id, host, tcp_port, udp_port, capacity): registered_at and
\* last_seen default to time.time(), active defaults to True
\* (mutant) a registration of a known node_id keeps the node's previous
\* active flag
NodeInfoKeepsActive(node_id, host, tcp_port, udp_port, capacity) ==
    [node_id |-> node_id, host |-> host, tcp_port |-> tcp_port,
     udp_port |-> udp_port, capacity |-> capacity,
     registered_at |-> now, last_seen |-> now,
     active |-> IF DictHas(registered, node_id)
                THEN DictGet(registered, node_id).active
                ELSE TRUE]

NodeInfo(node_id, host, tcp_port, udp_port, capacity) ==
    [node_id |-> node_id, host |-> host, tcp_port |-> tcp_port,
     udp_port |-> udp_port, capacity |-> capacity,
     registered_at |-> now, last_seen |-> now, active |-> TRUE]

---------------------------------------------------------------------------
(* Request handlers of the controller.  Each yields the registry after the *)
(* handler ([registered, last_hb]), the response it returns, and whether   *)
(* it entered `with self._lock`.                                           *)

Unchanged(resp, locks) ==
    [registered |-> registered, last_hb |-> last_hb,
     response |-> resp, locks |-> locks]

ErrorResponse(message) == [status |-> "ERROR", message |-> message]

_handle_register(msg) ==
    IF "node_id" \notin DOMAIN msg
    THEN Unchanged(ErrorResponse("'node_id'"), FALSE)       \* KeyError
    ELSE
    LET node_id == PyStr(msg.node_id)
        host == PyStr(Get(msg, "host", Str("127.0.0.1")))
        tcp_port == PyInt(Get(msg, "tcp_port", Num(ControllerPort)))
        udp_port == PyInt(Get(msg, "port", Num(0)))
        cap == Get(msg, "capacity", << >>)
        cpu == PyInt(Get(cap, "cpu", Num(4)))
        memory_gb == PyInt(Get(cap, "memory", Num(8)))
        storage_bytes == PyInt(Get(cap, "storage", Num(DefaultStorageBytes)))
        bandwidth_bps == PyInt(Get(cap, "bandwidth", Num(1000000000)))
        raised == FirstError(<<tcp_port, udp_port, cpu, memory_gb,
                               storage_bytes, bandwidth_bps>>)
    IN  IF ~raised.ok
        THEN Unchanged(ErrorResponse(raised.err), FALSE)
        ELSE [registered |->
                 DictPut(registered, node_id,
                         NodeInfo(node_id, host, tcp_port.val, udp_port.val,
                                  NodeCapacity(cpu.val, memory_gb.val,
                                               storage_bytes.val,
                                               bandwidth_bps.val))),
              last_hb |-> DictPut(last_hb, node_id, now),
              response |-> [status |-> "OK"],
              locks |-> TRUE]

\* (mutant) the heartbeat time is recorded before the registration is
\* looked up
_handle_heartbeat_unchecked(msg) ==
    LET node_id == PyStr(Get(msg, "node_id", Str("")))
    IN  IF DictHas(registered, node_id)
        THEN [registered |->
                 DictPut(registered, node_id,
                         [DictGet(registered, node_id)
                              EXCEPT !.last_seen = now]),
              last_hb |-> DictPut(last_hb, node_id, now),
              response |-> [status |-> "ACK"],
              locks |-> TRUE]
        ELSE [registered |-> registered,
              last_hb |-> DictPut(last_hb, node_id, now),
              response |-> ErrorResponse("Node not registered"),
              locks |-> TRUE]

_handle_heartbeat(msg) ==
    LET node_id == PyStr(Get(msg, "node_id", Str("")))
    IN  IF DictHas(registered, node_id)
        THEN [registered |->
                 DictPut(registered, node_id,
                         [DictGet(registered, node_id)
                              EXCEPT !.last_seen = now]),
              last_hb |-> DictPut(last_hb, node_id, now),
              response |-> [status |-> "ACK"],
              locks |-> TRUE]
        ELSE Unchanged(ErrorResponse("Node not registered"), TRUE)

_handle_active(msg) ==
    LET node_id == PyStr(Get(msg, "node_id", Str("")))
    IN  IF DictHas(registered, node_id)
        THEN [registered |->
                 DictPut(registered, node_id,
                         [DictGet(registered, node_id)
                              EXCEPT !.active = TRUE, !.last_seen = now]),
              last_hb |-> DictPut(last_hb, node_id, now),
              response |-> [status |-> "ACK"],
              locks |-> TRUE]
        ELSE Unchanged(ErrorResponse("Node not registered"), TRUE)

\* one entry of the LIST_NODES response
NodeEntry(n) ==
    [node_id |-> n.node_id, host |-> n.host, tcp_port |-> n.tcp_port,
     udp_port |-> n.udp_port, active |-> n.active,
     capacity |-> [cpu |-> n.capacity.cpu, memory |-> n.capacity.memory_gb,
                   storage |-> n.capacity.storage_bytes,
                   bandwidth |-> n.capacity.bandwidth_bps]]

_handle_list_nodes ==
    Unchanged([status |-> "OK",
               nodes |-> [i \in 1..Len(registered) |->
                             NodeEntry(registered[i].val)]],
              TRUE)

RECURSIVE SumSeq(_)
SumSeq(s) == IF s = << >> THEN 0 ELSE Head(s) + SumSeq(Tail(s))

get_stats ==
    LET n(i) == registered[i].val
        idx == 1..Len(registered)
    IN  [total_nodes |-> Len(registered),
         active_nodes |-> Cardinality({i \in idx : n(i).active}),
         total_connections |-> total_connections,
         total_data_transferred |-> 0,
         total_storage_capacity |->
             SumSeq([i \in idx |-> n(i).capacity.storage_bytes]),
         total_bandwidth_capacity |->
             SumSeq([i \in idx |-> n(i).capacity.bandwidth_bps])]

_handle_stats == Unchanged([status |-> "OK", stats |-> get_stats], TRUE)

\* the dispatch of _handle_client on message.get("action")
Dispatch(msg) ==
    LET action == Get(msg, "action", "None")
    IN  CASE action = "REGISTER" -> _handle_register(msg)
          [] action = "HEARTBEAT" -> _handle_heartbeat(msg)
          [] action = "ACTIVE_NOTIFICATION" -> _handle_active(msg)
          [] action = "LIST_NODES" -> _handle_list_nodes
          [] action = "STATS" -> _handle_stats
          [] OTHER -> Unchanged(ErrorResponse("Unknown action: " \o action),
                                FALSE)

---------------------------------------------------------------------------
(* The payloads clients send to the controller. *)

CapacityA ==
    [cpu |-> Num(4), memory |-> Num(8),
     storage |-> Num(2000), bandwidth |-> Num(1000)]

CapacityB ==
    [cpu |-> Num(2), memory |-> Num(4),
     storage |-> Num(1000), bandwidth |-> Num(500)]

\* what StorageNode._register sends, with a tcp_port as well
RegisterA(id) ==
    [action |-> "REGISTER", node_id |-> Str(id), host |-> Str("10.0.0.1"),
     tcp_port |-> Num(9000), port |-> Num(5001), capacity |-> CapacityA]

\* host, tcp_port and the probe port left to their defaults
RegisterB(id) ==
    [action |-> "REGISTER", node_id |-> Str(id), capacity |-> CapacityB]

RegisterNegative(id) ==
    [action |-> "REGISTER", node_id |-> Str(id), port |-> Num(5001),
     capacity |-> [CapacityB EXCEPT !.storage = Num(-1)]]

RegisterMalformed(id) ==
    [action |-> "REGISTER", node_id |-> Str(id), port |-> Num(5001),
     capacity |-> [CapacityA EXCEPT !.storage = Str("lots")]]

RegisterNoId == [action |-> "REGISTER", capacity |-> CapacityA]

\* bytes that json.loads rejects
MalformedPayload == [undecodable |-> TRUE]

IsMalformedPayload(data) == "undecodable" \in DOMAIN data

NodeIds == {"n1", "n2"}

Requests ==
    {RegisterA("n1"), RegisterB("n1"), RegisterA("n2"), RegisterA(""),
     RegisterNegative("n2"), RegisterMalformed("n1"), RegisterNoId,
     [action |-> "HEARTBEAT", node_id |-> Str("n1")],
     [action |-> "HEARTBEAT"],
     [action |-> "ACTIVE_NOTIFICATION", node_id |-> Str("n1")],
     [action |-> "LIST_NODES"], [action |-> "STATS"],
     [action |-> "SHUTDOWN"], MalformedPayload}

---------------------------------------------------------------------------
(* The controller: NetworkController.__init__ and the threads of start(). *)

\* the connection threads that can be alive at the same time
Conns == {"c1", "c2"}

Idle == [st |-> "idle"]
None == "None"

monVars == <<hb_pc, hb_cutoff, hb_items, hb_node, ping_ok, hb_wake>>

\* the passage of time
Tick ==
    /\ now + TimeStep <= MaxTime
    /\ now' = now + TimeStep
    /\ UNCHANGED <<registered, last_hb, total_connections, lock, conn,
                   monVars>>
    /\ UNCHANGED <<orchVars, auxVars>>

\* _accept_loop: one accepted connection, handed to a new thread that has
\* received `data`
Accept(c, data) ==
    /\ conn[c] = Idle
    /\ total_connections < MaxConnections
    /\ total_connections' = total_connections + 1
    /\ conn' = [conn EXCEPT ![c] = [st |-> "recv", data |-> data]]
    /\ UNCHANGED <<now, registered, last_hb, lock, monVars>>
    /\ UNCHANGED <<orchVars, auxVars>>

\* _handle_client: decode, dispatch, send the response.  An exception
\* (json.loads on a malformed payload) is swallowed and nothing is sent.
\* The handlers that take self._lock run when it is free and hold it for
\* the handler only.
_handle_client(c) ==
    /\ conn[c].st = "recv"
    /\ LET data == conn[c].data
       IN  IF IsMalformedPayload(data)
           THEN /\ conn' = [conn EXCEPT ![c] = [st |-> "dropped"]]
                /\ UNCHANGED <<registered, last_hb>>
           ELSE LET r == Dispatch(data)
                IN  /\ r.locks => lock = "free"
                    /\ registered' = r.registered
                    /\ last_hb' = r.last_hb
                    /\ conn' = [conn EXCEPT ![c] =
                                   [st |-> "replied", resp |-> r.response]]
    /\ UNCHANGED <<now, total_connections, lock, monVars>>
    /\ UNCHANGED <<orchVars, auxVars>>

\* `with client:` closes the connection when the handler thread ends
Close(c) ==
    /\ conn[c].st \in {"replied", "dropped"}
    /\ conn' = [conn EXCEPT ![c] = Idle]
    /\ UNCHANGED <<now, registered, last_hb, total_connections, lock,
                   monVars>>
    /\ UNCHANGED <<orchVars, auxVars>>

\* _heartbeat_monitor: time.sleep returns, cutoff is computed
MonitorWake ==
    /\ hb_pc = "sleep"
    /\ now >= hb_wake
    /\ hb_cutoff' = now - HEARTBEAT_TIMEOUT_SECONDS
    /\ hb_pc' = "acquire"
    /\ UNCHANGED <<now, registered, last_hb, total_connections, lock, conn,
                   hb_items, hb_node, ping_ok, hb_wake>>
    /\ UNCHANGED <<orchVars, auxVars>>

\* (mutant) the sweep reads the heartbeat times without taking the lock
MonitorAcquireUnlocked ==
    /\ hb_pc = "acquire"
    /\ lock = "free"
    /\ hb_items' = last_hb
    /\ hb_pc' = "scan"
    /\ UNCHANGED <<now, registered, last_hb, total_connections, lock, conn,
                   hb_cutoff, hb_node, ping_ok, hb_wake>>
    /\ UNCHANGED <<orchVars, auxVars>>

\* `with self._lock:` entered, list(self._last_hb.items()) taken
MonitorAcquire ==
    /\ hb_pc = "acquire"
    /\ lock = "free"
    /\ lock' = "monitor"
    /\ hb_items' = last_hb
    /\ hb_pc' = "scan"
    /\ UNCHANGED <<now, registered, last_hb, total_connections, conn,
                   hb_cutoff, hb_node, ping_ok, hb_wake>>
    /\ UNCHANGED <<orchVars, auxVars>>

\* the loop's test of one item: `last < cutoff` and the node is registered
Stale(item) == item.val < hb_cutoff /\ DictHas(registered, item.key)

\* one iteration of the for loop up to the call of _ping_udp, which returns
\* False at once for a port <= 0 and otherwise sends PING and waits; when
\* the list is exhausted the lock is released and the thread sleeps again
MonitorScan ==
    /\ hb_pc = "scan"
    /\ IF hb_items = << >>
       THEN /\ lock' = "free"
            /\ hb_pc' = "sleep"
            /\ hb_wake' = now + HEARTBEAT_CHECK_INTERVAL_SECONDS
            /\ hb_cutoff' = 0
            /\ UNCHANGED <<hb_items, hb_node, ping_ok>>
       ELSE /\ hb_items' = Tail(hb_items)
            /\ IF Stale(Head(hb_items))
               THEN /\ hb_node' = Head(hb_items).key
                    /\ IF DictGet(registered, Head(hb_items).key).udp_port <= 0
                       THEN hb_pc' = "apply" /\ ping_ok' = FALSE
                       ELSE hb_pc' = "ping" /\ UNCHANGED ping_ok
               ELSE UNCHANGED <<hb_pc, hb_node, ping_ok>>
            /\ UNCHANGED <<lock, hb_wake, hb_cutoff>>
    /\ UNCHANGED <<now, registered, last_hb, total_connections, conn>>
    /\ UNCHANGED <<orchVars, auxVars>>

\* _ping_udp returns: True when a datagram containing ALIVE arrived, False
\* on any other datagram, on the 1 s timeout or on a socket error
PingReturn(ok) ==
    /\ hb_pc = "ping"
    /\ ping_ok' = ok
    /\ hb_pc' = "apply"
    /\ UNCHANGED <<now, registered, last_hb, total_connections, lock, conn,
                   hb_cutoff, hb_items, hb_node, hb_wake>>
    /\ UNCHANGED <<orchVars, auxVars>>

\* (mutant) a node whose probe fails is evicted
SweepResultEvicts(node_id, ok) ==
    IF ok
    THEN [registered |->
             DictPut(registered, node_id,
                     [DictGet(registered, node_id) EXCEPT !.active = TRUE]),
          last_hb |-> DictPut(last_hb, node_id, now)]
    ELSE [registered |-> DictRemove(registered, node_id),
          last_hb |-> DictRemove(last_hb, node_id)]

\* the registry after the monitor acted on the probe's result `ok`
SweepResult(node_id, ok) ==
    LET info == DictGet(registered, node_id)
    IN  IF ok
        THEN [registered |->
                 DictPut(registered, node_id, [info EXCEPT !.active = TRUE]),
              last_hb |-> DictPut(last_hb, node_id, now)]
        ELSE IF info.active
        THEN [registered |->
                 DictPut(registered, node_id, [info EXCEPT !.active = FALSE]),
              last_hb |-> last_hb]
        ELSE [registered |-> registered, last_hb |-> last_hb]

MonitorApply ==
    /\ hb_pc = "apply"
    /\ registered' = SweepResult(hb_node, ping_ok).registered
    /\ last_hb' = SweepResult(hb_node, ping_ok).last_hb
    /\ hb_pc' = "scan"
    /\ hb_node' = None
    /\ ping_ok' = FALSE
    /\ UNCHANGED <<now, total_connections, lock, conn, hb_cutoff, hb_items,
                   hb_wake>>
    /\ UNCHANGED <<orchVars, auxVars>>

---------------------------------------------------------------------------
(* orchestrator.py: chunking *)

\* (mutant) the thresholds belong to the smaller chunk size
_calc_chunk_size_inclusive(file_size) ==
    IF file_size <= 10 * 1024 * 1024 THEN 512 * 1024
    ELSE IF file_size <= 100 * 1024 * 1024 THEN 2 * 1024 * 1024
    ELSE 10 * 1024 * 1024

_calc_chunk_size(file_size) ==
    IF file_size < 10 * 1024 * 1024 THEN 512 * 1024
    ELSE IF file_size < 100 * 1024 * 1024 THEN 2 * 1024 * 1024
    ELSE 10 * 1024 * 1024

Min(a, b) == IF a <= b THEN a ELSE b

\* FileChunk(chunk_id, size, checksum): status PENDING, stored_node None.
\* The checksum, md5 of "<file_id>-<chunk_id>", is kept as that pair.
FileChunk(chunk_id, size, checksum) ==
    [chunk_id |-> chunk_id, size |-> size, checksum |-> checksum,
     status |-> "PENDING", stored_node |-> None]

_gen_chunks(file_id, file_size) ==
    LET size == _calc_chunk_size(file_size)
        n == (file_size + size - 1) \div size
    IN  [k \in 1..n |->
            FileChunk(k - 1, Min(size, file_size - (k - 1) * size),
                      <<file_id, k - 1>>)]

\* FileTransfer(file_id, file_name, total_size, chunks): status PENDING.
\* file_name and the created_at / completed_at timestamps are left out.
FileTransfer(file_id, total_size, chunks) ==
    [file_id |-> file_id, total_size |-> total_size, chunks |-> chunks,
     status |-> "PENDING"]

is_complete(transfer) ==
    \A k \in 1..Len(transfer.chunks) : transfer.chunks[k].status = "COMPLETED"

---------------------------------------------------------------------------
(* orchestrator.py: target selection *)

\* the `nodes` list of the controller's LIST_NODES response
_list_nodes == _handle_list_nodes.response.nodes

\* self._reserved.get(nid, 0)
Reserved(nid) == IF nid \in DOMAIN reserved THEN reserved[nid] ELSE 0

_estimated_available(node) ==
    LET total == node.capacity.storage
        free == total - Reserved(node.node_id)
    IN  IF free > 0 THEN free ELSE 0

\* the sort key (estimated_available, bandwidth) and its tuple order
SortKey(node) == <<_estimated_available(node), node.capacity.bandwidth>>

\* (mutant) the bandwidth does not take part in the ordering
KeyLessAvailableOnly(a, b) == a[1] < b[1]

KeyLess(a, b) == a[1] < b[1] \/ (a[1] = b[1] /\ a[2] < b[2])

\* list.sort(key=..., reverse=True): descending and stable
RECURSIVE InsertDesc(_, _)
InsertDesc(sorted, node) ==
    IF sorted = << >> THEN <<node>>
    ELSE IF KeyLess(SortKey(Head(sorted)), SortKey(node))
    THEN <<node>> \o sorted
    ELSE <<Head(sorted)>> \o InsertDesc(Tail(sorted), node)

RECURSIVE SortDesc(_)
SortDesc(nodes) ==
    IF nodes = << >> THEN << >>
    ELSE InsertDesc(SortDesc(SubSeq(nodes, 1, Len(nodes) - 1)),
                    nodes[Len(nodes)])

Suitable(node, file_size) ==
    node.active /\ _estimated_available(node) >= file_size

\* (mutant) every active node is a candidate, whatever room it has left
_select_targets_any_room(nodes, replication, file_size) ==
    LET suitable == SelectSeq(nodes, LAMBDA n : n.active)
        ranked == SortDesc(suitable)
    IN  [k \in 1..Min(replication, Len(ranked)) |-> ranked[k].node_id]

_select_targets(nodes, replication, file_size) ==
    LET suitable == SelectSeq(nodes, LAMBDA n : Suitable(n, file_size))
        ranked == SortDesc(suitable)
    IN  [k \in 1..Min(replication, Len(ranked)) |-> ranked[k].node_id]

---------------------------------------------------------------------------
(* orchestrator.py: initiate_transfer, _execute, _simulate_to_node *)

MaxTransfers == 2       \* calls of initiate_transfer that plan a transfer
TransferIds == 1..MaxTransfers

\* the file sizes and replication factors callers ask for
FileSizes == {512 * 1024, 768 * 1024}
Replications == {1, 2}

NoTransfer == [status |-> "NONE"]
PlannerIdle(ret) == [pc |-> "idle", t |-> 0, i |-> 0, tmp |-> 0, ret |-> ret]
NoExecutor == [pc |-> "none", i |-> 0, tmp |-> 0, raised |-> FALSE]

\* Orchestrator.__init__: the ledger is empty; a node without an entry
\* reads as 0 everywhere (self._reserved.get(nid, 0))
InitOrchVars ==
    /\ reserved = [n \in NodeIds |-> 0]
    /\ transfers = [t \in TransferIds |-> NoTransfer]
    /\ target_nodes = [t \in TransferIds |-> << >>]
    /\ planner = PlannerIdle("-")
    /\ executor = [t \in TransferIds |-> NoExecutor]
    /\ sim_pos = [t \in TransferIds |-> << >>]
    /\ attributed = [t \in TransferIds |-> [n \in NodeIds |-> 0]]

Planned == {t \in TransferIds : transfers[t] # NoTransfer}

\* initiate_transfer up to the reservation loop: the snapshot is fetched,
\* the targets are selected; without targets the call returns None, else
\* the chunks and the FileTransfer are created
Plan(file_size, replication) ==
    /\ planner.pc = "idle"
    /\ Cardinality(Planned) < MaxTransfers
    /\ LET t == Cardinality(Planned) + 1
           targets == _select_targets(_list_nodes, replication, file_size)
       IN  IF targets = << >>
           THEN /\ planner' = PlannerIdle("None")
                /\ UNCHANGED <<transfers, target_nodes>>
           ELSE /\ transfers' = [transfers EXCEPT ![t] =
                       FileTransfer(t, file_size, _gen_chunks(t, file_size))]
                /\ target_nodes' = [target_nodes EXCEPT ![t] = targets]
                /\ planner' = [pc |-> "reserve_read", t |-> t, i |-> 1,
                               tmp |-> 0, ret |-> planner.ret]
    /\ UNCHANGED <<reserved, executor, sim_pos, attributed, ctlVars, auxVars>>

\* self._reserved[nid] = self._reserved.get(nid, 0) + file_size is a read
\* followed by a write; no lock guards the ledger
ReserveRead ==
    /\ planner.pc = "reserve_read"
    /\ planner' = [planner EXCEPT
                      !.tmp = reserved[target_nodes[planner.t][planner.i]],
                      !.pc = "reserve_write"]
    /\ UNCHANGED <<reserved, transfers, target_nodes, executor, sim_pos,
                   attributed, ctlVars, auxVars>>

\* the planner's state after the write for target i: the next target, or,
\* after the last one, the executor thread is started and the call returns
AfterReserve(t, i) ==
    IF i < Len(target_nodes[t])
    THEN [planner |-> [planner EXCEPT !.pc = "reserve_read", !.i = i + 1,
                                      !.tmp = 0],
          spawn |-> FALSE]
    ELSE [planner |-> PlannerIdle("FileTransfer"), spawn |-> TRUE]

\* (mutant) the file size is split among the replicas
ReserveWriteDivided ==
    /\ planner.pc = "reserve_write"
    /\ LET t == planner.t
           nid == target_nodes[t][planner.i]
           value == planner.tmp +
                    transfers[t].total_size \div Len(target_nodes[t])
           next == AfterReserve(t, planner.i)
       IN  /\ reserved' = [reserved EXCEPT ![nid] = value]
           /\ attributed' = [attributed EXCEPT ![t][nid] =
                                @ + (value - planner.tmp)]
           /\ planner' = next.planner
           /\ executor' = IF next.spawn
                          THEN [executor EXCEPT ![t].pc = "begin"]
                          ELSE executor
    /\ UNCHANGED <<transfers, target_nodes, sim_pos, ctlVars, auxVars>>

ReserveWrite ==
    /\ planner.pc = "reserve_write"
    /\ LET t == planner.t
           nid == target_nodes[t][planner.i]
           value == planner.tmp + transfers[t].total_size
           next == AfterReserve(t, planner.i)
       IN  /\ reserved' = [reserved EXCEPT ![nid] = value]
           /\ attributed' = [attributed EXCEPT ![t][nid] =
                                @ + (value - planner.tmp)]
           /\ planner' = next.planner
           /\ executor' = IF next.spawn
                          THEN [executor EXCEPT ![t].pc = "begin"]
                          ELSE executor
    /\ UNCHANGED <<transfers, target_nodes, sim_pos, ctlVars, auxVars>>

\* _execute: transfer.status = IN_PROGRESS
ExecBegin(t) ==
    /\ executor[t].pc = "begin"
    /\ transfers' = [transfers EXCEPT ![t].status = "IN_PROGRESS"]
    /\ executor' = [executor EXCEPT ![t].pc = "start", ![t].i = 1]
    /\ sim_pos' = [sim_pos EXCEPT ![t] =
                      [k \in 1..Len(target_nodes[t]) |-> 0]]
    /\ UNCHANGED <<reserved, target_nodes, planner, attributed, ctlVars,
                   auxVars>>

\* the first loop: one _simulate_to_node thread is created and started
ExecStart(t) ==
    /\ executor[t].pc = "start"
    /\ sim_pos' = [sim_pos EXCEPT ![t][executor[t].i] = 1]
    /\ executor' =
          IF executor[t].i < Len(target_nodes[t])
          THEN [executor EXCEPT ![t].i = @ + 1]
          ELSE [executor EXCEPT ![t].pc = "join", ![t].i = 1]
    /\ UNCHANGED <<reserved, transfers, target_nodes, planner, attributed,
                   ctlVars, auxVars>>

\* (mutant) the release is not in a finally block: the exception ends the
\* thread at once
ExecStartFailsNoFinally(t) ==
    /\ executor[t].pc = "start"
    /\ executor' = [executor EXCEPT ![t].pc = "raised", ![t].i = 0,
                                    ![t].raised = TRUE]
    /\ UNCHANGED <<reserved, transfers, target_nodes, planner, sim_pos,
                   attributed, ctlVars, auxVars>>

\* Thread.start() raises RuntimeError (no thread can be started): the try
\* block is left and the finally block runs
ExecStartFails(t) ==
    /\ executor[t].pc = "start"
    /\ executor' = [executor EXCEPT ![t].pc = "release_read", ![t].i = 1,
                                    ![t].raised = TRUE]
    /\ UNCHANGED <<reserved, transfers, target_nodes, planner, sim_pos,
                   attributed, ctlVars, auxVars>>

\* the second loop: t.join(timeout=30) returns, the thread having ended or
\* the 30 s having passed
ExecJoin(t) ==
    /\ executor[t].pc = "join"
    /\ executor' =
          IF executor[t].i < Len(target_nodes[t])
          THEN [executor EXCEPT ![t].i = @ + 1]
          ELSE [executor EXCEPT ![t].pc = "decide", ![t].i = 0]
    /\ UNCHANGED <<reserved, transfers, target_nodes, planner, sim_pos,
                   attributed, ctlVars, auxVars>>

\* the status _execute gives the transfer after the joins
Outcome(transfer) ==
    IF is_complete(transfer) THEN "COMPLETED" ELSE "FAILED"

ExecDecide(t) ==
    /\ executor[t].pc = "decide"
    /\ transfers' = [transfers EXCEPT ![t].status = Outcome(transfers[t])]
    /\ executor' = [executor EXCEPT ![t].pc = "release_read", ![t].i = 1]
    /\ UNCHANGED <<reserved, target_nodes, planner, sim_pos, attributed,
                   ctlVars, auxVars>>

\* finally: self._reserved[nid] = self._reserved.get(nid, 0) - total_size,
\* again a read followed by a write
ExecReleaseRead(t) ==
    /\ executor[t].pc = "release_read"
    /\ executor' = [executor EXCEPT
                       ![t].tmp = reserved[target_nodes[t][executor[t].i]],
                       ![t].pc = "release_write"]
    /\ UNCHANGED <<reserved, transfers, target_nodes, planner, sim_pos,
                   attributed, ctlVars, auxVars>>

\* the executor's state after the release for target i: the next target,
\* or the thread ends, normally or with the exception that was raised
AfterRelease(t, i) ==
    IF i < Len(target_nodes[t])
    THEN [executor[t] EXCEPT !.pc = "release_read", !.i = i + 1, !.tmp = 0]
    ELSE [executor[t] EXCEPT !.pc = IF executor[t].raised THEN "raised"
                                    ELSE "done",
                             !.i = 0, !.tmp = 0]

ExecReleaseWrite(t) ==
    /\ executor[t].pc = "release_write"
    /\ LET nid == target_nodes[t][executor[t].i]
           value == executor[t].tmp - transfers[t].total_size
       IN  /\ reserved' = [reserved EXCEPT ![nid] = value]
           /\ attributed' = [attributed EXCEPT ![t][nid] =
                                @ + (value - executor[t].tmp)]
    /\ executor' = [executor EXCEPT ![t] = AfterRelease(t, executor[t].i)]
    /\ UNCHANGED <<transfers, target_nodes, planner, sim_pos, ctlVars, auxVars>>

\* _simulate_to_node: after the sleep, one chunk is marked for this target
Deliver(chunk, node_id) ==
    [chunk EXCEPT !.status = "COMPLETED", !.stored_node = node_id]

Simulate(t, k) ==
    /\ k \in 1..Len(sim_pos[t])
    /\ sim_pos[t][k] \in 1..Len(transfers[t].chunks)
    /\ transfers' = [transfers EXCEPT ![t].chunks[sim_pos[t][k]] =
                        Deliver(@, target_nodes[t][k])]
    /\ sim_pos' = [sim_pos EXCEPT ![t][k] = @ + 1]
    /\ UNCHANGED <<reserved, target_nodes, planner, executor, attributed,
                   ctlVars, auxVars>>

---------------------------------------------------------------------------
(* Specifications *)

NoCall == [fn |-> "none"]
NoAgent == [pc |-> "none"]

\* no function has been called and no node agent exists
InitAuxVars ==
    /\ call = NoCall
    /\ agent = NoAgent

InitCtl ==
    /\ now = 0
    /\ registered = << >>
    /\ last_hb = << >>
    /\ total_connections = 0
    /\ lock = "free"
    /\ conn = [c \in Conns |-> Idle]
    /\ hb_pc = "sleep"
    /\ hb_cutoff = 0
    /\ hb_items = << >>
    /\ hb_node = None
    /\ ping_ok = FALSE
    /\ hb_wake = HEARTBEAT_CHECK_INTERVAL_SECONDS
    /\ InitOrchVars
    /\ InitAuxVars

NextCtl ==
    \/ Tick
    \/ \E c \in Conns, data \in Requests : Accept(c, data)
    \/ \E c \in Conns : _handle_client(c)
    \/ \E c \in Conns : Close(c)
    \/ MonitorWake
    \/ MonitorAcquire
    \/ MonitorScan
    \/ \E ok \in BOOLEAN : PingReturn(ok)
    \/ MonitorApply

SpecCtl == InitCtl /\ [][NextCtl]_vars

\* the registries the orchestrator plans against: n1 and n2 registered,
\* n2 active or not
OrchNode(id, storage_bytes, bandwidth_bps, active) ==
    [key |-> id,
     val |-> [NodeInfo(id, "127.0.0.1", ControllerPort, 0,
                       NodeCapacity(4, 8, storage_bytes, bandwidth_bps))
                 EXCEPT !.active = active]]

\* n1 has room for two of the smaller files, n2 for one file of either size
OrchRegistries ==
    {<<OrchNode("n1", 1024 * 1024, 500, TRUE),
       OrchNode("n2", 768 * 1024, 1000, a)>> : a \in BOOLEAN}

InitOrch ==
    /\ now = 0
    /\ registered \in OrchRegistries
    /\ last_hb = [i \in 1..Len(registered) |->
                     [key |-> registered[i].key, val |-> now]]
    /\ total_connections = 0
    /\ lock = "free"
    /\ conn = [c \in Conns |-> Idle]
    /\ hb_pc = "sleep"
    /\ hb_cutoff = 0
    /\ hb_items = << >>
    /\ hb_node = None
    /\ ping_ok = FALSE
    /\ hb_wake = HEARTBEAT_CHECK_INTERVAL_SECONDS
    /\ InitOrchVars
    /\ InitAuxVars

\* the orchestrator when every thread can be started
NextOrchNoFault ==
    \/ \E size \in FileSizes, r \in Replications : Plan(size, r)
    \/ ReserveRead
    \/ ReserveWrite
    \/ \E t \in TransferIds :
          \/ ExecBegin(t)
          \/ ExecStart(t)
          \/ ExecJoin(t)
          \/ ExecDecide(t)
          \/ ExecReleaseRead(t)
          \/ ExecReleaseWrite(t)
          \/ \E k \in 1..Len(target_nodes[t]) : Simulate(t, k)

NextOrch ==
    \/ NextOrchNoFault
    \/ \E t \in TransferIds : ExecStartFails(t)

SpecOrchNoFault == InitOrch /\ [][NextOrchNoFault]_vars

SpecOrch == InitOrch /\ [][NextOrch]_vars

\* The orchestrator in the middle of a run, with one transfer in flight.
\* Two transfers of 512 KiB went to n1.  The executor of the first read the
\* ledger (512 KiB) before the second reservation was written and wrote 0
\* after it, and that transfer is over; the executor of the second, whose
\* joins timed out, read 1 MiB in between and has not written yet.  Only
\* the second transfer is kept: it is transfer 1 here.
InFlightSize == 512 * 1024

InFlightTransfer ==
    [FileTransfer(1, InFlightSize, _gen_chunks(1, InFlightSize))
        EXCEPT !.status = "FAILED"]

InitLedger ==
    /\ now = 0
    /\ registered \in OrchRegistries
    /\ last_hb = [i \in 1..Len(registered) |->
                     [key |-> registered[i].key, val |-> now]]
    /\ total_connections = 0
    /\ lock = "free"
    /\ conn = [c \in Conns |-> Idle]
    /\ hb_pc = "sleep"
    /\ hb_cutoff = 0
    /\ hb_items = << >>
    /\ hb_node = None
    /\ ping_ok = FALSE
    /\ hb_wake = HEARTBEAT_CHECK_INTERVAL_SECONDS
    /\ reserved = [n \in NodeIds |-> 0]
    /\ transfers = [t \in TransferIds |->
                       IF t = 1 THEN InFlightTransfer ELSE NoTransfer]
    /\ target_nodes = [t \in TransferIds |->
                          IF t = 1 THEN <<"n1">> ELSE << >>]
    /\ planner = PlannerIdle("FileTransfer")
    /\ executor = [t \in TransferIds |->
                      IF t = 1
                      THEN [pc |-> "release_write", i |-> 1,
                            tmp |-> 2 * InFlightSize, raised |-> FALSE]
                      ELSE NoExecutor]
    /\ sim_pos = [t \in TransferIds |-> IF t = 1 THEN <<1>> ELSE << >>]
    /\ attributed = [t \in TransferIds |->
                        [n \in NodeIds |->
                            IF t = 1 /\ n = "n1" THEN InFlightSize ELSE 0]]
    /\ InitAuxVars

SpecLedger == InitLedger /\ [][NextOrchNoFault]_vars

\* the same state as SpecOrchNoFault reaches it from an empty ledger, where
\* the transfer in flight is transfer 2 and transfer 1 is the one that is
\* over
InFlightInOrch ==
    /\ reserved = [n \in NodeIds |-> 0]
    /\ planner = PlannerIdle("FileTransfer")
    /\ executor[1].pc = "done"
    /\ executor[2] = [pc |-> "release_write", i |-> 1,
                      tmp |-> 2 * InFlightSize, raised |-> FALSE]
    /\ transfers[2] = [InFlightTransfer EXCEPT
                          !.file_id = 2,
                          !.chunks = _gen_chunks(2, InFlightSize)]
    /\ target_nodes[2] = <<"n1">>
    /\ sim_pos[2] = <<1>>
    /\ attributed[2] = [n \in NodeIds |->
                           IF n = "n1" THEN InFlightSize ELSE 0]

\* a thread that can take a step takes one: the planner inside a call and
\* each executor (a join returns after 30 s at the latest).  Nothing is
\* assumed of the simulation threads, which may be slow, stop or never end.
PlannerStep == ReserveRead \/ ReserveWrite

ExecStepNoFault(t) ==
    \/ ExecBegin(t)
    \/ ExecStart(t)
    \/ ExecJoin(t)
    \/ ExecDecide(t)
    \/ ExecReleaseRead(t)
    \/ ExecReleaseWrite(t)

ExecStep(t) == ExecStepNoFault(t) \/ ExecStartFails(t)

SpecOrchNoFaultFair ==
    /\ SpecOrchNoFault
    /\ WF_vars(PlannerStep)
    /\ \A t \in TransferIds : WF_vars(ExecStepNoFault(t))

SpecOrchFair ==
    /\ SpecOrch
    /\ WF_vars(PlannerStep)
    /\ \A t \in TransferIds : WF_vars(ExecStep(t))

---------------------------------------------------------------------------
(* _select_targets called on its own, on snapshots of up to three nodes *)

SelStorages == {50, 100}
SelBandwidths == {500, 1000, 2000}
SelSizes == {0, 50, 100, 150}
SelReplications == {1, 2, 3}

\* ledgers: empty, partly reserved, over-committed, negative; n3 has no
\* entry
SelLedgers ==
    {[n1 |-> 0, n2 |-> 0], [n1 |-> 50, n2 |-> 0], [n1 |-> 0, n2 |-> 120],
     [n1 |-> -50, n2 |-> 50]}

SelSnapshots ==
    LET Node(id) == {OrchNode(id, s, b, a) :
                        s \in SelStorages, b \in SelBandwidths,
                        a \in BOOLEAN}
        Full == {<<x, y, z>> : x \in Node("n1"), y \in Node("n2"),
                               z \in Node("n3")}
    IN  {SubSeq(f, 1, n) : f \in Full, n \in 0..3}

InitSelect ==
    /\ now = 0
    /\ registered \in SelSnapshots
    /\ last_hb = [i \in 1..Len(registered) |->
                     [key |-> registered[i].key, val |-> now]]
    /\ total_connections = 0
    /\ lock = "free"
    /\ conn = [c \in Conns |-> Idle]
    /\ hb_pc = "sleep"
    /\ hb_cutoff = 0
    /\ hb_items = << >>
    /\ hb_node = None
    /\ ping_ok = FALSE
    /\ hb_wake = HEARTBEAT_CHECK_INTERVAL_SECONDS
    /\ reserved \in SelLedgers
    /\ transfers = [t \in TransferIds |-> NoTransfer]
    /\ target_nodes = [t \in TransferIds |-> << >>]
    /\ planner = PlannerIdle("-")
    /\ executor = [t \in TransferIds |-> NoExecutor]
    /\ sim_pos = [t \in TransferIds |-> << >>]
    /\ attributed = [t \in TransferIds |-> [n \in NodeIds |-> 0]]
    /\ InitAuxVars

\* targets = self._select_targets(nodes, replication, file_size)
SelectCall(file_size, replication) ==
    /\ call' = [fn |-> "_select_targets", file_size |-> file_size,
                replication |-> replication,
                result |-> _select_targets(_list_nodes, replication,
                                           file_size)]
    /\ UNCHANGED <<ctlVars, orchVars, agent>>

NextSelect ==
    \E size \in SelSizes, r \in SelReplications : SelectCall(size, r)

SpecSelect == InitSelect /\ [][NextSelect]_vars

---------------------------------------------------------------------------
(* _gen_chunks called on its own *)

MiB == 1024 * 1024

\* file sizes around the multiples of each chunk size and around the two
\* thresholds, and the sizes of the documented examples
ChunkFileSizes ==
    {z \in {m * 256 * 1024 + d : m \in 0..40, d \in {-1, 0, 1}} : z >= 0}
    \cup {9 * MiB, 50 * MiB, 250 * MiB}
    \cup {10 * MiB + m * MiB + d : m \in 0..6, d \in {-1, 0, 1}}
    \cup {100 * MiB + m * 5 * MiB + d : m \in 0..4, d \in {-1, 0, 1}}

\* chunks = _gen_chunks(file_id, file_size)
GenChunksCall(file_id, file_size) ==
    /\ call' = [fn |-> "_gen_chunks", file_id |-> file_id,
                file_size |-> file_size,
                result |-> _gen_chunks(file_id, file_size)]
    /\ UNCHANGED <<ctlVars, orchVars, agent>>

NextChunks == \E size \in ChunkFileSizes : GenChunksCall("f", size)

SpecChunks == InitCtl /\ [][NextChunks]_vars

---------------------------------------------------------------------------
(* node.py: one StorageNode and its HeartbeatSender, talking to the        *)
(* controller.  The thread running start() uses connection c1, the sender  *)
(* thread uses c2.                                                         *)

\* the constructor arguments of the agents: one the controller accepts and
\* one whose cpu is not a number
AgentConfigs ==
    {[node_id |-> "n1", cpu |-> cpu, memory_gb |-> 8, storage_gb |-> 1,
      bandwidth_mbps |-> 1] : cpu \in {Num(4), Str("many")}}

\* self.hb_udp.port as _register reads it: the port the UDP thread picked,
\* or still 0 when that thread has not run yet
UdpPorts == {0, 5001}

\* StorageNode.__init__ and start() up to the call of _register
AgentStart(cfg) ==
    /\ agent = NoAgent
    /\ agent' = [pc |-> "register", cfg |-> cfg, reply |-> "none",
                 sender |-> "off", active_sent |-> FALSE, heartbeats |-> 0]
    /\ UNCHANGED <<ctlVars, orchVars, call>>

\* the message built by _register
RegisterMessage(cfg, port) ==
    [action |-> "REGISTER", node_id |-> Str(cfg.node_id),
     host |-> Str("127.0.0.1"), port |-> Num(port),
     capacity |-> [cpu |-> cfg.cpu, memory |-> Num(cfg.memory_gb),
                   storage |-> Num(cfg.storage_gb * 1024 * 1024 * 1024),
                   bandwidth |-> Num(cfg.bandwidth_mbps * 1000000)]]

\* socket.create_connection succeeds and sendall sends `data`: the accept
\* loop hands the connection to a handler thread
Connect(c, data) ==
    /\ conn[c] = Idle
    /\ total_connections < MaxConnections
    /\ total_connections' = total_connections + 1
    /\ conn' = [conn EXCEPT ![c] = [st |-> "recv", data |-> data]]
    /\ UNCHANGED <<now, registered, last_hb, lock, monVars>>

\* s.recv returns what the handler sent (nothing when it dropped the
\* connection) and `with ... as s` closes the socket
Received(c) == conn[c].st \in {"replied", "dropped"}

ReplyStatus(c) ==
    IF conn[c].st = "replied" THEN conn[c].resp.status ELSE "empty"

Disconnect(c) ==
    /\ conn' = [conn EXCEPT ![c] = Idle]
    /\ UNCHANGED <<now, registered, last_hb, total_connections, lock,
                   monVars>>

\* _register: the request is sent
AgentRegisterSend(port) ==
    /\ agent # NoAgent
    /\ agent.pc = "register"
    /\ Connect("c1", RegisterMessage(agent.cfg, port))
    /\ agent' = [agent EXCEPT !.pc = "register_recv"]
    /\ UNCHANGED <<orchVars, call>>

\* _register: create_connection raises, and the exception leaves start()
AgentRegisterRefused ==
    /\ agent # NoAgent
    /\ agent.pc = "register"
    /\ agent' = [agent EXCEPT !.pc = "aborted", !.reply = "refused"]
    /\ UNCHANGED <<ctlVars, orchVars, call>>

\* _register: `_ = s.recv(4096)`; the reply is read and discarded, and
\* start() goes on.  (`reply` keeps what was read, for the properties.)
AgentRegisterRecv ==
    /\ agent # NoAgent
    /\ agent.pc = "register_recv"
    /\ Received("c1")
    /\ agent' = [agent EXCEPT !.pc = "start_sender",
                              !.reply = ReplyStatus("c1")]
    /\ Disconnect("c1")
    /\ UNCHANGED <<orchVars, call>>

\* self.hb_sender.start()
AgentStartSender ==
    /\ agent # NoAgent
    /\ agent.pc = "start_sender"
    /\ agent' = [agent EXCEPT !.pc = "notify", !.sender = "send"]
    /\ UNCHANGED <<ctlVars, orchVars, call>>

\* _notify_active: the request is sent
AgentNotifySend ==
    /\ agent # NoAgent
    /\ agent.pc = "notify"
    /\ Connect("c1", [action |-> "ACTIVE_NOTIFICATION",
                      node_id |-> Str(agent.cfg.node_id)])
    /\ agent' = [agent EXCEPT !.pc = "notify_recv", !.active_sent = TRUE]
    /\ UNCHANGED <<orchVars, call>>

\* _notify_active: create_connection raises, and the exception leaves
\* start(); the sender is a daemon thread and keeps running meanwhile
AgentNotifyRefused ==
    /\ agent # NoAgent
    /\ agent.pc = "notify"
    /\ agent' = [agent EXCEPT !.pc = "aborted"]
    /\ UNCHANGED <<ctlVars, orchVars, call>>

\* _notify_active: the reply is read and discarded; start() enters its
\* idle loop
AgentNotifyRecv ==
    /\ agent # NoAgent
    /\ agent.pc = "notify_recv"
    /\ Received("c1")
    /\ agent' = [agent EXCEPT !.pc = "running"]
    /\ Disconnect("c1")
    /\ UNCHANGED <<orchVars, call>>

\* HeartbeatSender._send_heartbeat: the request is sent
SenderSend ==
    /\ agent # NoAgent
    /\ agent.sender = "send"
    /\ Connect("c2", [action |-> "HEARTBEAT",
                      node_id |-> Str(agent.cfg.node_id)])
    /\ agent' = [agent EXCEPT !.sender = "recv", !.heartbeats = @ + 1]
    /\ UNCHANGED <<orchVars, call>>

\* HeartbeatSender._send_heartbeat: the reply is read and discarded, and
\* run() sleeps until the next heartbeat
SenderRecv ==
    /\ agent # NoAgent
    /\ agent.sender = "recv"
    /\ Received("c2")
    /\ agent' = [agent EXCEPT !.sender = "send"]
    /\ Disconnect("c2")
    /\ UNCHANGED <<orchVars, call>>

NextNode ==
    \/ \E cfg \in AgentConfigs : AgentStart(cfg)
    \/ \E port \in UdpPorts : AgentRegisterSend(port)
    \/ AgentRegisterRefused
    \/ AgentRegisterRecv
    \/ AgentStartSender
    \/ AgentNotifySend
    \/ AgentNotifyRefused
    \/ AgentNotifyRecv
    \/ SenderSend
    \/ SenderRecv
    \/ \E c \in Conns : _handle_client(c)
    \/ Tick
    \/ MonitorWake
    \/ MonitorAcquire
    \/ MonitorScan
    \/ \E ok \in BOOLEAN : PingReturn(ok)
    \/ MonitorApply

SpecNode == InitCtl /\ [][NextNode]_vars

---------------------------------------------------------------------------
(* Properties of the transfer executor and the ledger (SpecOrch) *)

Chunks(t) == transfers[t].chunks
Targets(t) == 1..Len(target_nodes[t])

\* target k's simulation has delivered every chunk of transfer t
DeliveredAll(t, k) ==
    k \in DOMAIN sim_pos[t] /\ sim_pos[t][k] = Len(Chunks(t)) + 1

ExecutorEnded(t) == executor[t].pc \in {"done", "raised"}

\* C1: when the executor stops waiting and decides, the transfer becomes
\* COMPLETED if and only if every target has delivered every chunk, and
\* FAILED otherwise.
C1_CompletedIffAllDelivered ==
    [][\A t \in TransferIds :
          (executor[t].pc = "decide" /\ executor'[t].pc # "decide")
          => transfers'[t].status =
                IF \A k \in Targets(t) : DeliveredAll(t, k)
                THEN "COMPLETED" ELSE "FAILED"]_vars

\* C2: once the executor of a transfer has ended, on the normal path or by
\* an exception, what the transfer's own reserve and release writes added
\* to the ledger is zero on every node: each reservation was released
\* exactly once.
C2_ReleasedExactlyOnce ==
    \A t \in TransferIds :
        ExecutorEnded(t) => \A n \in NodeIds : attributed[t][n] = 0

\* one transfer ended FAILED after a join timed out, another one ended by
\* the exception of a thread that could not be started, both replicated
C2_Witness ==
    \E t1, t2 \in TransferIds :
        /\ executor[t1].pc = "done" /\ transfers[t1].status = "FAILED"
        /\ executor[t2].pc = "raised"
        /\ Len(target_nodes[t1]) = 2 /\ Len(target_nodes[t2]) = 2

\* C4: the reserved bytes of every node are never negative.
C4_LedgerNonNegative == \A n \in NodeIds : reserved[n] >= 0

\* C5: the ledger entry of every node is the sum of the sizes of the
\* transfers reserved on it and not yet released (so zero when there is
\* none): no update of the ledger is lost.
C5_LedgerIsOutstandingSum ==
    \A n \in NodeIds :
        reserved[n] = SumSeq([t \in TransferIds |-> attributed[t][n]])

---------------------------------------------------------------------------
(* Properties of the registry and the liveness monitor (SpecCtl) *)

\* the handler thread of connection c answers (or drops) its request
Handled(c) == conn[c].st = "recv" /\ conn'[c].st # "recv"
ReqAction(c) == Get(conn[c].data, "action", "None")
ReqNodeId(c) == PyStr(Get(conn[c].data, "node_id", Str("")))
Replied(resp) == [st |-> "replied", resp |-> resp]

\* C3: while a liveness probe is in flight the monitor does not hold the
\* registry lock, so a request handler can take it.
C3_ProbeOutsideLock == hb_pc = "ping" => lock = "free"

\* C6: when the probe of a stale node succeeds, the node's record is
\* active afterwards and its last_seen is not earlier than the probe
\* (hence not earlier than the start of the sweep that sent it).
C6_ProbeRefreshesLastSeen ==
    [][(hb_pc = "apply" /\ ping_ok /\ hb_pc' = "scan")
       => LET info == DictGet(registered', hb_node)
          IN  /\ info.active
              /\ info.last_seen >= hb_cutoff + HEARTBEAT_TIMEOUT_SECONDS]_vars

\* C7: no step removes a node from the registry, and when the probe of a
\* stale node fails or times out the node is inactive afterwards and still
\* registered.
C7_NeverDeleted ==
    [][/\ DictKeys(registered) \subseteq DictKeys(registered')
       /\ (hb_pc = "apply" /\ ~ping_ok /\ hb_pc' = "scan")
          => /\ DictHas(registered', hb_node)
             /\ ~DictGet(registered', hb_node).active]_vars

\* a probed node was marked inactive and another node is registered too
C7_Witness ==
    /\ Len(registered) >= 2
    /\ \E i \in 1..Len(registered) :
          /\ ~registered[i].val.active
          /\ registered[i].val.udp_port > 0

\* C8: a HEARTBEAT or ACTIVE_NOTIFICATION for a node_id that is not
\* registered is answered with the error "Node not registered" and changes
\* neither the records nor the heartbeat times.
C8_UnknownNodeRejected ==
    [][\A c \in Conns :
          (/\ Handled(c)
           /\ ReqAction(c) \in {"HEARTBEAT", "ACTIVE_NOTIFICATION"}
           /\ ~DictHas(registered, ReqNodeId(c)))
          => /\ conn'[c] = Replied(ErrorResponse("Node not registered"))
             /\ registered' = registered
             /\ last_hb' = last_hb]_vars

\* the error was sent while another node is registered
C8_Witness ==
    /\ registered # << >>
    /\ \E c \in Conns :
          conn[c] = Replied(ErrorResponse("Node not registered"))

\* C9: the registry holds one record per node_id; a successful REGISTER
\* leaves the record of its node_id with the host, ports and capacity it
\* carried; nothing else changes those fields or the order of the records;
\* LIST_NODES returns one entry per record, with the record's fields.
DistinctIds(reg) ==
    /\ \A i, j \in 1..Len(reg) : reg[i].key = reg[j].key => i = j
    /\ \A i \in 1..Len(reg) : reg[i].val.node_id = reg[i].key

RegisterOk(c) ==
    /\ Handled(c)
    /\ ReqAction(c) = "REGISTER"
    /\ conn'[c] = Replied([status |-> "OK"])

Carries(obj, k, v) == k \in DOMAIN obj => obj[k] = v

Declared(info) == <<info.host, info.tcp_port, info.udp_port, info.capacity>>

C9_OneRecordPerId ==
    [][/\ DistinctIds(registered')
       /\ \A c \in Conns :
             RegisterOk(c) =>
                LET data == conn[c].data
                    info == DictGet(registered', ReqNodeId(c))
                IN  /\ DictHas(registered', ReqNodeId(c))
                    /\ Carries(data, "host", Str(info.host))
                    /\ Carries(data, "tcp_port", Num(info.tcp_port))
                    /\ Carries(data, "port", Num(info.udp_port))
                    /\ Carries(data.capacity, "cpu", Num(info.capacity.cpu))
                    /\ Carries(data.capacity, "memory",
                               Num(info.capacity.memory_gb))
                    /\ Carries(data.capacity, "storage",
                               Num(info.capacity.storage_bytes))
                    /\ Carries(data.capacity, "bandwidth",
                               Num(info.capacity.bandwidth_bps))
       /\ \A i \in 1..Len(registered) :
             /\ i <= Len(registered')
             /\ registered'[i].key = registered[i].key
             /\ \/ Declared(registered'[i].val) = Declared(registered[i].val)
                \/ \E c \in Conns :
                      RegisterOk(c) /\ ReqNodeId(c) = registered[i].key
       /\ \A c \in Conns :
             (Handled(c) /\ ReqAction(c) = "LIST_NODES") =>
                /\ conn'[c].st = "replied"
                /\ conn'[c].resp.status = "OK"
                /\ Len(conn'[c].resp.nodes) = Len(registered)
                /\ \A i \in 1..Len(registered) :
                      LET e == conn'[c].resp.nodes[i]
                          info == registered[i].val
                      IN  /\ e.node_id = registered[i].key
                          /\ <<e.host, e.tcp_port, e.udp_port>>
                                = <<info.host, info.tcp_port, info.udp_port>>
                          /\ <<e.capacity.cpu, e.capacity.memory,
                               e.capacity.storage, e.capacity.bandwidth>>
                                = <<info.capacity.cpu, info.capacity.memory_gb,
                                    info.capacity.storage_bytes,
                                    info.capacity.bandwidth_bps>>]_vars

\* an earlier LIST_NODES answer still shows n1 with the capacity of its
\* first registration while the registry, after n1 registered again, holds
\* a single record of n1 with the capacity of the second registration
C9_Witness ==
    /\ Len(registered) = 1
    /\ registered[1].key = "n1"
    /\ registered[1].val.capacity.storage_bytes = CapacityB.storage.num
    /\ registered[1].val.registered_at > 0
    /\ \E c \in Conns :
          /\ conn[c].st = "replied"
          /\ "nodes" \in DOMAIN conn[c].resp
          /\ Len(conn[c].resp.nodes) = 1
          /\ conn[c].resp.nodes[1].node_id = "n1"
          /\ conn[c].resp.nodes[1].capacity.storage = CapacityA.storage.num

\* C10: a REGISTER whose node_id is missing or empty, or with a capacity or
\* port field that is not a number or is negative, is answered with an
\* error and changes nothing; any other REGISTER is answered OK.
NonNegative(obj, k) == k \in DOMAIN obj => (IsNum(obj[k]) /\ obj[k].num >= 0)

WellFormedRegister(data) ==
    /\ "node_id" \in DOMAIN data
    /\ IsStr(data.node_id)
    /\ data.node_id.str # ""
    /\ NonNegative(data, "tcp_port")
    /\ NonNegative(data, "port")
    /\ \A k \in {"cpu", "memory", "storage", "bandwidth"} :
          NonNegative(Get(data, "capacity", << >>), k)

C10_RegisterValidated ==
    [][\A c \in Conns :
          (Handled(c) /\ ReqAction(c) = "REGISTER") =>
             IF WellFormedRegister(conn[c].data)
             THEN conn'[c] = Replied([status |-> "OK"])
             ELSE /\ conn'[c].st = "replied"
                  /\ conn'[c].resp.status = "ERROR"
                  /\ registered' = registered
                  /\ last_hb' = last_hb]_vars

---------------------------------------------------------------------------
(* Properties of planning (SpecOrch) *)

\* no registered node is active with storage minus reserved bytes of at
\* least file_size
NoCapacity(file_size) ==
    \A i \in 1..Len(registered) :
        ~(/\ registered[i].val.active
          /\ registered[i].val.capacity.storage_bytes
                - Reserved(registered[i].key) >= file_size)

\* C11: a call of initiate_transfer made when no node is active with room
\* for the file returns None, creates no transfer, starts no executor and
\* leaves the ledger as it was.
C11_NoCapacityNoEffect ==
    [][\A size \in FileSizes, r \in Replications :
          (Plan(size, r) /\ NoCapacity(size))
          => /\ planner' = PlannerIdle("None")
             /\ transfers' = transfers
             /\ target_nodes' = target_nodes
             /\ executor' = executor
             /\ sim_pos' = sim_pos
             /\ reserved' = reserved]_vars

\* the call returned None while an earlier transfer holds its reservation
C11_Witness ==
    /\ planner = PlannerIdle("None")
    /\ \E t \in TransferIds :
          /\ executor[t].pc \in {"begin", "start", "join", "decide"}
          /\ \A k \in Targets(t) :
                reserved[target_nodes[t][k]] = transfers[t].total_size

\* C12: every reserve write of the planner stores the value it read for
\* that target plus the whole file size and changes no other entry; the
\* other steps of the call change no entry; when the call returns, each
\* target has received one such write and the executor has not started;
\* an executor releases only after the call has returned.
C12_ReservesFullSize ==
    [][/\ (planner.pc = "reserve_write" /\ planner' # planner)
          => LET t == planner.t
                 nid == target_nodes[t][planner.i]
             IN  /\ reserved'[nid] = planner.tmp + transfers[t].total_size
                 /\ \A m \in NodeIds \ {nid} : reserved'[m] = reserved[m]
                 /\ attributed'[t][nid] = transfers[t].total_size
       /\ (planner.pc # "reserve_write" /\ planner' # planner)
          => reserved' = reserved
       /\ (planner.pc # "idle" /\ planner'.pc = "idle")
          => LET t == planner.t
             IN  /\ planner'.ret = "FileTransfer"
                 /\ executor[t].pc = "none"
                 /\ \A n \in NodeIds :
                       attributed'[t][n] =
                          IF \E k \in Targets(t) : target_nodes[t][k] = n
                          THEN transfers[t].total_size ELSE 0
       /\ \A t \in TransferIds :
             (executor[t].pc = "release_write" /\ executor' # executor)
             => planner.t # t]_vars

\* the call returned a transfer placed on one of two active nodes: the
\* entry of its target holds the file size, the other entry is untouched
C12_Witness ==
    /\ planner = PlannerIdle("FileTransfer")
    /\ \A i \in 1..Len(registered) : registered[i].val.active
    /\ \E t \in TransferIds :
          /\ executor[t].pc = "begin"
          /\ Len(target_nodes[t]) = 1
          /\ \A n \in NodeIds :
                reserved[n] = IF n = target_nodes[t][1]
                              THEN transfers[t].total_size ELSE 0

---------------------------------------------------------------------------
(* Properties of target selection (SpecSelect) *)

\* estimated_available of the i-th node of the snapshot: its declared
\* storage minus its reserved bytes, and 0 when that is negative
Available(i) ==
    LET free == registered[i].val.capacity.storage_bytes
                  - Reserved(registered[i].key)
    IN  IF free > 0 THEN free ELSE 0

Bandwidth(i) == registered[i].val.capacity.bandwidth_bps

Candidates(file_size) ==
    {i \in 1..Len(registered) :
        registered[i].val.active /\ Available(i) >= file_size}

\* node i comes before node j: more room, or as much room and more
\* bandwidth, or as much of both and earlier in the snapshot
Before(i, j) ==
    \/ Available(i) > Available(j)
    \/ Available(i) = Available(j) /\ Bandwidth(i) > Bandwidth(j)
    \/ Available(i) = Available(j) /\ Bandwidth(i) = Bandwidth(j) /\ i < j

Rank(i, file_size) ==
    Cardinality({j \in Candidates(file_size) : Before(j, i)}) + 1

\* C13: _select_targets returns the ids of the first `replication`
\* candidates (as many as there are when there are fewer), the candidates
\* being the active nodes with estimated_available >= file_size in
\* descending order of estimated_available, then of bandwidth, then in
\* snapshot order.
C13_SelectsTopCandidates ==
    call.fn = "_select_targets" =>
        LET cands == Candidates(call.file_size)
            res == call.result
        IN  /\ Len(res) = Min(call.replication, Cardinality(cands))
            /\ \A i \in cands :
                  Rank(i, call.file_size) <= Len(res)
                  => res[Rank(i, call.file_size)] = registered[i].key

\* three active nodes with (available, bandwidth) = (100, 500),
\* (100, 1000), (50, 2000), a file of 100 bytes and 2 replicas: the second
\* node, then the first; the third has too little room
C13_Witness ==
    /\ call.fn = "_select_targets"
    /\ call.file_size = 100 /\ call.replication = 2
    /\ Len(registered) = 3
    /\ \A i \in 1..3 : registered[i].val.active
    /\ <<Available(1), Bandwidth(1)>> = <<100, 500>>
    /\ <<Available(2), Bandwidth(2)>> = <<100, 1000>>
    /\ <<Available(3), Bandwidth(3)>> = <<50, 2000>>
    /\ call.result = <<"n2", "n1">>

---------------------------------------------------------------------------
(* Properties of chunking (SpecChunks) *)

\* C14: the chunk size is 512 KiB below 10 MiB, 2 MiB below 100 MiB and
\* 10 MiB from there on; the number of chunks is the ceiling of file size
\* over chunk size; the ids are 0..n-1 in order; every chunk but the last
\* has the chunk size, the last one a size in (0, chunk size]; the sizes
\* add up to the file size.
C14_ChunksCoverFile ==
    call.fn = "_gen_chunks" =>
        LET size == call.file_size
            chunks == call.result
            n == Len(chunks)
            cs == IF size < 10485760 THEN 524288
                  ELSE IF size < 104857600 THEN 2097152
                  ELSE 10485760
        IN  /\ n * cs >= size
            /\ n > 0 => (n - 1) * cs < size
            /\ \A k \in 1..n : chunks[k].chunk_id = k - 1
            /\ \A k \in 1..(n - 1) : chunks[k].size = cs
            /\ n > 0 => chunks[n].size > 0 /\ chunks[n].size <= cs
            /\ SumSeq([k \in 1..n |-> chunks[k].size]) = size

\* one byte more than 10 MiB: five chunks of 2 MiB and a last one of
\* one byte
C14_Witness ==
    /\ call.fn = "_gen_chunks"
    /\ call.file_size = 10485761
    /\ Len(call.result) = 6
    /\ call.result[5].size = 2097152
    /\ call.result[6].size = 1

---------------------------------------------------------------------------
(* Properties of chunk delivery (SpecOrch) *)

\* the targets a chunk records as having delivered it: FileChunk keeps
\* one stored_node
DeliveredBy(chunk) ==
    IF chunk.stored_node = None THEN {} ELSE {chunk.stored_node}

TargetSet(t) == {target_nodes[t][k] : k \in Targets(t)}

\* C15: a simulation that completes a chunk adds its target to the
\* targets the chunk records and removes none of them; a transfer that
\* becomes COMPLETED has every target recorded on every chunk.
C15_DeliveryRecordedPerTarget ==
    [][\A t \in TransferIds :
          /\ \A k \in DOMAIN sim_pos[t] :
                (/\ sim_pos[t][k] \in 1..Len(Chunks(t))
                 /\ sim_pos'[t][k] = sim_pos[t][k] + 1)
                => LET c == sim_pos[t][k]
                   IN  DeliveredBy(transfers'[t].chunks[c]) =
                          DeliveredBy(transfers[t].chunks[c])
                             \cup {target_nodes[t][k]}
          /\ (transfers[t].status = "IN_PROGRESS"
                /\ transfers'[t].status = "COMPLETED")
             => \A c \in 1..Len(Chunks(t)) :
                   DeliveredBy(transfers'[t].chunks[c]) = TargetSet(t)]_vars

---------------------------------------------------------------------------
(* Termination of transfers (SpecOrchFair) *)

\* the call of initiate_transfer that planned transfer t has returned it
Returned(t) == executor[t].pc # "none"

Terminal(t) == transfers[t].status \in {"COMPLETED", "FAILED"}

\* C16: every transfer that initiate_transfer has returned eventually has
\* the status COMPLETED or FAILED.
C16_EventuallyTerminal ==
    \A t \in TransferIds : Returned(t) ~> Terminal(t)

---------------------------------------------------------------------------
(* Protocol errors and liveness flags (SpecCtl) *)

KnownActions ==
    {"REGISTER", "HEARTBEAT", "ACTIVE_NOTIFICATION", "LIST_NODES", "STATS"}

ProtocolError(c) ==
    \/ IsMalformedPayload(conn[c].data)
    \/ ReqAction(c) \notin KnownActions

\* C17: a connection whose request is a malformed payload or carries an
\* unrecognized action is sent a response with status ERROR (naming the
\* action when the action is unrecognized), and the registry is unchanged.
C17_ProtocolErrorAnswered ==
    [][\A c \in Conns :
          (Handled(c) /\ ProtocolError(c))
          => /\ conn'[c].st = "replied"
             /\ conn'[c].resp.status = "ERROR"
             /\ ~IsMalformedPayload(conn[c].data)
                   => conn'[c].resp.message =
                         "Unknown action: " \o ReqAction(c)
             /\ registered' = registered
             /\ last_hb' = last_hb]_vars

\* what a LIST_NODES request would be answered now
ListedNodes == _handle_list_nodes.response.nodes

\* the last confirmation of node_id (heartbeat, notification, registration
\* or successful probe) is no older than the heartbeat timeout
ConfirmedRecently(node_id) ==
    /\ DictHas(last_hb, node_id)
    /\ DictGet(last_hb, node_id) >= now - HEARTBEAT_TIMEOUT_SECONDS

\* C18: a registered node whose liveness was confirmed within the
\* heartbeat timeout is listed by LIST_NODES with active = TRUE.
C18_ConfirmedIsActive ==
    \A i \in 1..Len(ListedNodes) :
        ConfirmedRecently(ListedNodes[i].node_id) => ListedNodes[i].active

\* C19: a REGISTER that is answered OK for a node_id that is already
\* registered leaves a fresh record: active whatever the node was before,
\* registered and last seen now, and its heartbeat time is now.
C19_ReRegisterFresh ==
    [][\A c \in Conns :
          (RegisterOk(c) /\ DictHas(registered, ReqNodeId(c)))
          => LET info == DictGet(registered', ReqNodeId(c))
             IN  /\ info.active
                 /\ info.registered_at = now
                 /\ info.last_seen = now
                 /\ DictGet(last_hb', ReqNodeId(c)) = now]_vars

\* n1 was listed as inactive, and a REGISTER answered just now has made it
\* active again
C19_Witness ==
    /\ \E c \in Conns :
          /\ conn[c].st = "replied"
          /\ "nodes" \in DOMAIN conn[c].resp
          /\ \E i \in 1..Len(conn[c].resp.nodes) :
                /\ conn[c].resp.nodes[i].node_id = "n1"
                /\ ~conn[c].resp.nodes[i].active
    /\ \E c \in Conns : conn[c] = Replied([status |-> "OK"])
    /\ DictHas(registered, "n1")
    /\ DictGet(registered, "n1").active
    /\ DictGet(registered, "n1").registered_at = now
    /\ DictGet(last_hb, "n1") = now

---------------------------------------------------------------------------
(* Startup of a node agent (SpecNode) *)

\* the agent has started its heartbeat sender, or sent a heartbeat or the
\* active notification
AgentAnnounced ==
    /\ agent # NoAgent
    /\ \/ agent.sender # "off"
       \/ agent.heartbeats > 0
       \/ agent.active_sent

\* C20: an agent starts its heartbeat sender and sends HEARTBEAT and
\* ACTIVE_NOTIFICATION only if its REGISTER request was answered OK.
C20_AnnouncesOnlyIfRegistered == AgentAnnounced => agent.reply = "OK"

---------------------------------------------------------------------------
(* The sweep against concurrent handlers (SpecCtl) *)

\* C21: a step that turns a registered node's active flag from TRUE to
\* FALSE is the sweep's, and at that moment the node's recorded heartbeat
\* time is older than the cutoff of that sweep.
C21_NoStaleFlip ==
    [][\A i \in 1..Len(registered) :
          LET node_id == registered[i].key
          IN  (/\ registered[i].val.active
               /\ DictHas(registered', node_id)
               /\ ~DictGet(registered', node_id).active)
              => /\ hb_pc = "apply"
                 /\ hb_node = node_id
                 /\ DictGet(last_hb', node_id) < hb_cutoff]_vars

\* the sweep has just marked n1 inactive while a handler thread holding a
\* HEARTBEAT, ACTIVE_NOTIFICATION or REGISTER of n1 waits for the lock
C21_Witness ==
    /\ lock = "monitor"
    /\ hb_pc = "scan"
    /\ DictHas(registered, "n1")
    /\ ~DictGet(registered, "n1").active
    /\ DictGet(last_hb, "n1") < hb_cutoff
    /\ \E c \in Conns :
          /\ conn[c].st = "recv"
          /\ ~IsMalformedPayload(conn[c].data)
          /\ ReqAction(c) \in {"HEARTBEAT", "ACTIVE_NOTIFICATION", "REGISTER"}
          /\ "node_id" \in DOMAIN conn[c].data
          /\ ReqNodeId(c) = "n1"

---------------------------------------------------------------------------
(* The ledger against the declared capacities (SpecOrch) *)

\* the storage node_id declared when it registered
DeclaredStorage(node_id) ==
    DictGet(registered, node_id).capacity.storage_bytes

\* C22: the bytes reserved in the ledger for a node never exceed the
\* storage the node declared.
C22_NeverOverCommitted ==
    \A node_id \in DictKeys(registered) :
        reserved[node_id] <= DeclaredStorage(node_id)

---------------------------------------------------------------------------
(* Stability of a finished transfer (SpecOrchNoFault) *)

\* the moves of a transfer's status: created PENDING, then IN_PROGRESS,
\* then COMPLETED or FAILED
StatusMoves ==
    {<<"NONE", "PENDING">>, <<"PENDING", "IN_PROGRESS">>,
     <<"IN_PROGRESS", "COMPLETED">>, <<"IN_PROGRESS", "FAILED">>}

StatusInOrder(t) ==
    transfers'[t].status # transfers[t].status
       => <<transfers[t].status, transfers'[t].status>> \in StatusMoves

\* the transfer has its final status and its executor has released the
\* reservations and ended
Finished(t) == Terminal(t) /\ executor[t].pc = "done"

\* C23: the status of a transfer moves only PENDING -> IN_PROGRESS ->
\* COMPLETED or FAILED, and once the transfer is COMPLETED or FAILED and
\* its reservations are released, neither its status nor the status or
\* stored_node of any of its chunks changes.
C23_TerminalIsStable ==
    [][\A t \in TransferIds :
          /\ StatusInOrder(t)
          /\ Finished(t) => transfers'[t] = transfers[t]]_vars

============================================================================
